---- MODULE Spec2Model ----
(***************************************************************************)
(* A model of queue.c: a queue of strings kept as a circular doubly-linked *)
(* list around a sentinel (struct list_head), with element_t nodes that    *)
(* own a heap copy of their string.                                        *)
(*                                                                         *)
(* The heap is a fixed pool of element slots 1..MaxElems plus the sentinel *)
(* slot HEAD.  A slot is either allocated (alloc[n] = TRUE) or free;       *)
(* malloc hands out the lowest free slot or fails.  Pointers are slot      *)
(* numbers, NULL is the null pointer.  A C string is the sequence of its   *)
(* bytes including the terminating 0; the null char* is the empty          *)
(* sequence (no storage).                                                  *)
(***************************************************************************)
EXTENDS Integers, Sequences, FiniteSets, TLC

\* ------------------------------------------------------------ bounds
\* Number of element slots the allocator can hand out.
MaxElems == 3

\* Number of bytes in the buffer a caller passes to q_remove_head/q_remove_tail.
BufCap == 3

\* ------------------------------------------------------------ constants
\* size_t arithmetic is modulo 2^SizeBits.  30 bits are kept of the build's
\* width, which TLC's 32-bit integers cannot hold; every buffer and string
\* of the model is far shorter than 2^30.
SizeBits == 30
SizeMod == 2 ^ SizeBits
\* The null pointer.
NULL == -1
\* The slot of the sentinel allocated by q_new.
HEAD == 0
\* merge()'s "ptr" when it still points at the local variable "head".
PtrLocal == -2

\* The unspecified link value of a node that list_del has unlinked: no node
\* and not NULL, so that following it is an error.
POISON == -3
\* Loops and recursions are charged against Fuel per call; HANG is the value
\* of a loop that yields a pointer or a count and ran out.
Fuel == (MaxElems + 1) * (MaxElems + 1)
HANG == -4

Elems == 1..MaxElems
Nodes == {HEAD} \cup Elems

\* The strings callers insert: bytes followed by the terminator.  One is a
\* proper prefix of the other, so strcmp has to reach the terminator to
\* tell them apart, and returns negative, zero and positive results.
Texts == { <<1, 0>>, <<1, 2, 0>> }
\* A null char*.
NullStr == << >>

VARIABLES
    head,    \* the caller's queue handle: HEAD, or NULL when there is no queue
    next,    \* next[n]: list_head.next of slot n
    prev,    \* prev[n]: list_head.prev of slot n
    value,   \* value[n]: element_t.value of slot n
    alloc,   \* alloc[n]: slot n is allocated (malloc'ed and not yet free'd)
    held,    \* elements returned by q_remove_head/q_remove_tail, owned by the caller
    fault,   \* a free() of a slot that is not allocated has happened
    net,     \* successful insertions minus elements removed or deleted, for this queue
    last     \* the last call: its name, argument, result and the queue before it

vars == <<head, next, prev, value, alloc, held, fault, net, last>>

\* The heap as one value, threaded through the operators that model C code.
\* log collects the slots passed to free during one call, in order.  fuel
\* is the number of loop iterations and recursive calls the call may still
\* make, and hang is set when a loop or a recursion wants one more.
Heap == [next |-> next, prev |-> prev, value |-> value, alloc |-> alloc, fault |-> fault,
         log |-> << >>, fuel |-> Fuel, hang |-> FALSE]

\* One loop iteration or recursive call is charged; a loop that cannot be
\* charged stops with hang set (or yields HANG where it yields a pointer or
\* a count).
Tick(h) == [h EXCEPT !.fuel = h.fuel - 1]
Hang(h) == [h EXCEPT !.hang = TRUE]

SetNext(h, n, p)  == [h EXCEPT !.next[n] = p]
SetPrev(h, n, p)  == [h EXCEPT !.prev[n] = p]
SetValue(h, n, s) == [h EXCEPT !.value[n] = s]

\* ------------------------------------------------------------ libc
\* malloc: the lowest free element slot, or NULL when the allocation fails
\* (ok = FALSE) or no slot is left.
malloc(h, ok) ==
    LET avail == {n \in Elems : ~h.alloc[n]}
    IN  IF ok /\ avail # {}
        THEN LET n == CHOOSE x \in avail : \A y \in avail : x <= y
             IN  [h |-> [h EXCEPT !.alloc[n] = TRUE], p |-> n]
        ELSE [h |-> h, p |-> NULL]

\* free(p) of a node: the slot goes back to the allocator and its contents
\* are gone.  Freeing a slot that is not allocated is recorded in fault.
free(h, n) ==
    [h EXCEPT !.alloc[n] = FALSE,
              !.next[n]  = NULL,
              !.prev[n]  = NULL,
              !.value[n] = NullStr,
              !.fault    = h.fault \/ ~h.alloc[n],
              !.log      = Append(h.log, n)]

\* strlen: the index of the terminator, counted from 0.
RECURSIVE strlen_from(_, _)
strlen_from(s, i) == IF s[i] = 0 THEN i - 1 ELSE strlen_from(s, i + 1)
strlen(s) == strlen_from(s, 1)

\* strdup: a fresh copy of the bytes up to and including the terminator, or
\* the null pointer when its allocation fails.
strdup(s, ok) == IF ok THEN SubSeq(s, 1, strlen(s) + 1) ELSE NullStr

\* strcmp: difference of the first pair of bytes that differ, 0 when the
\* terminator is reached first.
RECURSIVE strcmp_from(_, _, _)
strcmp_from(a, b, i) ==
    IF a[i] # b[i] THEN a[i] - b[i]
    ELSE IF a[i] = 0 THEN 0
    ELSE strcmp_from(a, b, i + 1)
strcmp(a, b) == strcmp_from(a, b, 1)

\* A caller's buffer: bytes 0..BufCap-1, and whether a byte outside them was
\* written.  A fresh buffer holds Junk everywhere.
Junk == -1
FreshBuf == [mem |-> [i \in 0..(BufCap - 1) |-> Junk], oob |-> FALSE]

\* strncpy(dst + off, src, count): exactly count bytes are written at
\* off, off+1, ...: the bytes of src up to its terminator, then zeros.
strncpy(b, off, src, count) ==
    LET len == strlen(src)
        byte(k) == IF k < len THEN src[k + 1] ELSE 0
    IN  [mem |-> [i \in 0..(BufCap - 1) |->
                    IF off <= i /\ i < off + count THEN byte(i - off) ELSE b.mem[i]],
         oob |-> b.oob \/ (count > 0 /\ (off < 0 \/ off + count > BufCap))]

\* ------------------------------------------------------------ list.h
INIT_LIST_HEAD(h, l) == SetPrev(SetNext(h, l, l), l, l)

list_empty(h, l) == h.next[l] = l

list_is_singular(h, l) == ~list_empty(h, l) /\ h.prev[l] = h.next[l]

\* list_add: link node right after l.
list_add(h, node, l) ==
    LET nx == h.next[l]
        h1 == SetPrev(h, nx, node)
        h2 == SetNext(h1, node, nx)
        h3 == SetPrev(h2, node, l)
    IN  SetNext(h3, l, node)

\* list_add_tail: link node right before l.
list_add_tail(h, node, l) ==
    LET pv == h.prev[l]
        h1 == SetNext(h, pv, node)
        h2 == SetNext(h1, node, l)
        h3 == SetPrev(h2, node, pv)
    IN  SetPrev(h3, l, node)

\* list_del: unlink node by relinking its neighbours.  The links of the
\* unlinked node itself are unspecified afterwards: they get POISON.
list_del(h, node) ==
    LET nx == h.next[node]
        pv == h.prev[node]
        h1 == SetPrev(h, nx, pv)
        h2 == SetNext(h1, pv, nx)
    IN  SetPrev(SetNext(h2, node, POISON), node, POISON)

list_move(h, node, l) == list_add(list_del(h, node), node, l)

\* ------------------------------------------------------------ queue.c
\* q_new: allocate the sentinel and make it self-linked.
q_new(h, ok) ==
    IF ~ok THEN [h |-> h, ret |-> NULL]
    ELSE [h |-> INIT_LIST_HEAD([h EXCEPT !.alloc[HEAD] = TRUE], HEAD), ret |-> HEAD]

\* q_release_element: free the string, then the element.
q_release_element(h, e) == free(SetValue(h, e, NullStr), e)

\* new_element that returns NULL when strdup fails without freeing the
\* element.
new_element_leak(h, s, ok1, ok2) ==
    LET m  == malloc(h, ok1)
        e  == m.p
    IN  IF e = NULL THEN [h |-> h, p |-> NULL]
        ELSE LET h1 == SetPrev(SetNext(m.h, e, NULL), e, NULL)
             IN  IF s # NullStr
                 THEN LET v == strdup(s, ok2)
                      IN  IF v = NullStr
                          THEN [h |-> h1, p |-> NULL]
                          ELSE [h |-> SetValue(h1, e, v), p |-> e]
                 ELSE [h |-> SetValue(h1, e, NullStr), p |-> e]

\* new_element: ok1 and ok2 are the outcomes of malloc and of strdup.
new_element(h, s, ok1, ok2) ==
    LET m  == malloc(h, ok1)
        e  == m.p
    IN  IF e = NULL THEN [h |-> h, p |-> NULL]
        ELSE LET h1 == SetPrev(SetNext(m.h, e, NULL), e, NULL)
             IN  IF s # NullStr
                 THEN LET v == strdup(s, ok2)
                      IN  IF v = NullStr
                          THEN [h |-> free(h1, e), p |-> NULL]
                          ELSE [h |-> SetValue(h1, e, v), p |-> e]
                 ELSE [h |-> SetValue(h1, e, NullStr), p |-> e]

q_insert_head(h, l, s, ok1, ok2) ==
    IF l = NULL THEN [h |-> h, ret |-> FALSE]
    ELSE LET n == new_element(h, s, ok1, ok2)
         IN  IF n.p = NULL THEN [h |-> n.h, ret |-> FALSE]
             ELSE [h |-> list_add(n.h, n.p, l), ret |-> TRUE]

\* q_insert_tail that links the new element with list_add, as q_insert_head
\* does.
q_insert_tail_front(h, l, s, ok1, ok2) == q_insert_head(h, l, s, ok1, ok2)

q_insert_tail(h, l, s, ok1, ok2) ==
    IF l = NULL THEN [h |-> h, ret |-> FALSE]
    ELSE LET n == new_element(h, s, ok1, ok2)
         IN  IF n.p = NULL THEN [h |-> n.h, ret |-> FALSE]
             ELSE [h |-> list_add_tail(n.h, n.p, l), ret |-> TRUE]

\* The copy into the caller's buffer made by q_remove_head and q_remove_tail:
\* strncpy(sp, value, bufsize - 1); strncpy(sp + bufsize - 1, "\0", 1).
copy_out(s, bufsize) ==
    LET b1 == strncpy(FreshBuf, 0, s, (bufsize - 1) % SizeMod)
    IN  strncpy(b1, bufsize - 1, <<0>>, 1)

\* q_remove_head that releases the element it returns.
q_remove_head_free(h, l, sp, bufsize) ==
    IF l = NULL \/ list_empty(h, l) THEN [h |-> h, ret |-> NULL, buf |-> FreshBuf]
    ELSE LET element == h.next[l]
         IN  [h   |-> q_release_element(list_del(h, h.next[l]), element),
              ret |-> element,
              buf |-> IF sp THEN copy_out(h.value[element], bufsize) ELSE FreshBuf]

\* q_remove_head: sp tells whether a buffer is passed.
q_remove_head(h, l, sp, bufsize) ==
    IF l = NULL \/ list_empty(h, l) THEN [h |-> h, ret |-> NULL, buf |-> FreshBuf]
    ELSE LET element == h.next[l]
         IN  [h   |-> list_del(h, h.next[l]),
              ret |-> element,
              buf |-> IF sp THEN copy_out(h.value[element], bufsize) ELSE FreshBuf]

q_remove_tail(h, l, sp, bufsize) ==
    IF l = NULL \/ list_empty(h, l) THEN [h |-> h, ret |-> NULL, buf |-> FreshBuf]
    ELSE LET element == h.prev[l]
         IN  [h   |-> list_del(h, h.prev[l]),
              ret |-> element,
              buf |-> IF sp THEN copy_out(h.value[element], bufsize) ELSE FreshBuf]

\* q_size: list_for_each counts the nodes between head->next and head.
RECURSIVE size_loop(_, _, _, _)
size_loop(h, l, node, size) ==
    IF node = l THEN size
    ELSE IF h.fuel = 0 THEN HANG
    ELSE size_loop(Tick(h), l, h.next[node], size + 1)

\* q_size that starts its count at 1.
q_size_from1(h, l) ==
    IF l = NULL \/ list_empty(h, l) THEN 0 ELSE size_loop(h, l, h.next[l], 1)

q_size(h, l) ==
    IF l = NULL \/ list_empty(h, l) THEN 0 ELSE size_loop(h, l, h.next[l], 0)

\* q_delete_mid: slow moves one link while fast moves two.
RECURSIVE mid_loop(_, _, _, _)
mid_loop(h, l, slow, fast) ==
    IF fast # l /\ h.next[fast] # l
    THEN IF h.fuel = 0 THEN HANG
         ELSE mid_loop(Tick(h), l, h.next[slow], h.next[h.next[fast]])
    ELSE slow

\* q_delete_mid whose fast pointer starts one node ahead, as mergesort's
\* does.
q_delete_mid_lower(h, l) ==
    IF l = NULL \/ list_empty(h, l) THEN [h |-> h, ret |-> FALSE]
    ELSE LET slow == mid_loop(h, l, h.next[l], h.next[h.next[l]])
         IN  [h |-> q_release_element(list_del(h, slow), slow), ret |-> TRUE]

\* q_delete_mid that checks the handle but not list_empty.
q_delete_mid_noempty(h, l) ==
    IF l = NULL THEN [h |-> h, ret |-> FALSE]
    ELSE LET slow == mid_loop(h, l, h.next[l], h.next[l])
         IN  [h |-> q_release_element(list_del(h, slow), slow), ret |-> TRUE]

q_delete_mid(h, l) ==
    IF l = NULL \/ list_empty(h, l) THEN [h |-> h, ret |-> FALSE]
    ELSE LET slow == mid_loop(h, l, h.next[l], h.next[l])
         IN  IF slow = HANG THEN [h |-> Hang(h), ret |-> FALSE]
             ELSE [h |-> q_release_element(list_del(h, slow), slow), ret |-> TRUE]

\* q_delete_dup, inner while: unlink and release the nodes after curr that
\* compare equal to it.
RECURSIVE dup_run(_, _, _, _)
dup_run(h, l, curr, nx) ==
    IF nx # l /\ strcmp(h.value[curr], h.value[nx]) = 0
    THEN IF h.fuel = 0 THEN [h |-> Hang(h), next |-> nx]
         ELSE LET h1 == SetNext(Tick(h), curr, h.next[nx])
                  h2 == SetPrev(h1, h1.next[nx], curr)
                  h3 == q_release_element(h2, nx)
              IN  dup_run(h3, l, curr, h3.next[curr])
    ELSE [h |-> h, next |-> nx]

\* q_delete_dup that keeps the first node of a run.
dup_first_keep(h, curr, nx) == h

\* q_delete_dup, after the inner while: unlink and release curr, the first
\* node of the run; nx is the node after the run.
dup_first(h, curr, nx) ==
    LET h1 == SetNext(h, h.prev[curr], nx)
        h2 == SetPrev(h1, nx, h1.prev[curr])
    IN  q_release_element(h2, curr)

\* q_delete_dup, outer while.
RECURSIVE dup_loop(_, _, _)
dup_loop(h, l, curr) ==
    IF curr # l /\ h.next[curr] # l
    THEN IF h.fuel = 0 THEN Hang(h)
         ELSE LET nx == h.next[curr]
              IN  IF strcmp(h.value[curr], h.value[nx]) = 0
                  THEN LET r == dup_run(Tick(h), l, curr, nx)
                       IN  dup_loop(dup_first(r.h, curr, r.next), l, r.next)
                  ELSE dup_loop(Tick(h), l, h.next[curr])
    ELSE h

\* q_delete_dup that reports success for a NULL head.
q_delete_dup_true(h, l) ==
    IF l = NULL THEN [h |-> h, ret |-> TRUE]
    ELSE [h |-> dup_loop(h, l, h.next[l]), ret |-> TRUE]

q_delete_dup(h, l) ==
    IF l = NULL THEN [h |-> h, ret |-> FALSE]
    ELSE [h |-> dup_loop(h, l, h.next[l]), ret |-> TRUE]

\* A loop body of q_swap that exchanges the two strings and leaves the
\* links alone.
swap_pair_values(h, curr) ==
    LET tmp == h.next[curr]
    IN  SetValue(SetValue(h, curr, h.value[tmp]), tmp, h.value[curr])

\* q_swap, the six assignments of the loop body: relink curr after the
\* node that follows it.
swap_pair(h, curr) ==
    LET tmp == h.next[curr]
        h1  == SetNext(h, curr, h.next[tmp])
        h2  == SetPrev(h1, tmp, h1.prev[curr])
        h3  == SetNext(h2, h2.prev[curr], tmp)
        h4  == SetPrev(h3, curr, tmp)
        h5  == SetPrev(h4, h4.next[tmp], curr)
    IN  SetNext(h5, tmp, curr)

\* q_swap, the while loop.
RECURSIVE swap_loop(_, _, _)
swap_loop(h, l, curr) ==
    IF curr # l /\ h.next[curr] # l
    THEN IF h.fuel = 0 THEN Hang(h)
         ELSE LET h1 == swap_pair(Tick(h), curr)
              IN  swap_loop(h1, l, h1.next[curr])
    ELSE h

\* q_swap that tests for an empty list only and runs the loop body once,
\* on the first node and whatever follows it.
q_swap_first(h, l) ==
    IF l = NULL \/ list_empty(h, l) THEN h
    ELSE swap_pair(h, h.next[l])

q_swap(h, l) ==
    IF l = NULL \/ list_empty(h, l) \/ list_is_singular(h, l) THEN h
    ELSE swap_loop(h, l, h.next[l])

\* q_reverse's loop stopping one node early, when the saved next node is
\* the sentinel.
RECURSIVE reverse_loop_short(_, _, _, _)
reverse_loop_short(h, l, iter, nx) ==
    IF iter # l /\ nx # l
    THEN LET h1 == list_move(h, iter, l)
         IN  reverse_loop_short(h1, l, nx, h1.next[nx])
    ELSE h

\* q_reverse: list_for_each_safe moves every node to the front in turn.
RECURSIVE reverse_loop(_, _, _, _)
reverse_loop(h, l, iter, nx) ==
    IF iter # l
    THEN IF h.fuel = 0 THEN Hang(h)
         ELSE LET h1 == list_move(Tick(h), iter, l)
              IN  reverse_loop(h1, l, nx, h1.next[nx])
    ELSE h

q_reverse(h, l) ==
    IF l = NULL \/ list_empty(h, l) \/ list_is_singular(h, l) THEN h
    ELSE reverse_loop(h, l, h.next[l], h.next[h.next[l]])

\* merge's choice with the comparison turned round.
merge_pick_desc(h, l, r) == strcmp(h.value[l], h.value[r]) > 0

\* merge, the choice of the loop body: TRUE when node = &l, FALSE when
\* node = &r.
merge_pick(h, l, r) == strcmp(h.value[l], h.value[r]) < 0

\* merge, the for loop and the two statements after it.  head is the local
\* variable, prv the local "prev", ptr either PtrLocal (ptr = &head) or the
\* node whose next field ptr points at.
RECURSIVE merge_loop(_, _, _, _, _, _)
merge_loop(h, hd, l, r, prv, ptr) ==
    IF l # NULL /\ r # NULL
    THEN IF h.fuel = 0 THEN [h |-> Hang(h), head |-> hd]
         ELSE LET takeL == merge_pick(h, l, r)
                  node  == IF takeL THEN l ELSE r
                  h1    == SetPrev(Tick(h), node, prv)
                  hd1   == IF ptr = PtrLocal THEN node ELSE hd
                  h2    == IF ptr = PtrLocal THEN h1 ELSE SetNext(h1, ptr, node)
                  adv   == h2.next[node]
              IN  merge_loop(h2, hd1, IF takeL THEN adv ELSE l,
                             IF takeL THEN r ELSE adv, node, node)
    ELSE LET rest == IF l # NULL THEN l ELSE r
             hd1  == IF ptr = PtrLocal THEN rest ELSE hd
             h1   == IF ptr = PtrLocal THEN h ELSE SetNext(h, ptr, rest)
         IN  [h |-> SetPrev(h1, rest, prv), head |-> hd1]

merge(h, l, r) == merge_loop(h, l, l, r, NULL, PtrLocal)

\* mergesort, the for loop that finds mid.
RECURSIVE find_mid(_, _, _)
find_mid(h, mid, fast) ==
    IF fast # NULL /\ h.next[fast] # NULL
    THEN IF h.fuel = 0 THEN HANG
         ELSE find_mid(Tick(h), h.next[mid], h.next[h.next[fast]])
    ELSE mid

\* A split that cuts every chain after its first node.
split_mid_head(h, hd) == hd

\* mergesort, lines 334-338: the node at which the chain from head is cut.
split_mid(h, hd) == find_mid(h, hd, h.next[hd])

\* mergesort that does not cut the chain after mid before it sorts the
\* left part.
RECURSIVE mergesort_nocut(_, _)
mergesort_nocut(h, hd) ==
    IF h.next[hd] = NULL THEN [h |-> h, head |-> hd]
    ELSE IF h.fuel = 0 THEN [h |-> Hang(h), head |-> hd]
    ELSE LET mid == split_mid(h, hd)
         IN  IF mid = HANG THEN [h |-> Hang(h), head |-> hd]
             ELSE LET R   == mergesort_nocut(Tick(h), h.next[mid])
                      L   == mergesort_nocut(R.h, hd)
                  IN  merge(L.h, L.head, R.head)

\* mergesort: a chain of one node is returned as it is; a longer one is cut
\* after mid, both parts are sorted (the right one first) and merged.
RECURSIVE mergesort(_, _)
mergesort(h, hd) ==
    IF h.next[hd] = NULL THEN [h |-> h, head |-> hd]
    ELSE IF h.fuel = 0 THEN [h |-> Hang(h), head |-> hd]
    ELSE LET mid == split_mid(h, hd)
         IN  IF mid = HANG THEN [h |-> Hang(h), head |-> hd]
             ELSE LET R   == mergesort(Tick(h), h.next[mid])
                      h1  == SetNext(R.h, mid, NULL)
                      L   == mergesort(h1, hd)
                  IN  merge(L.h, L.head, R.head)

\* q_sort, the while loop that finds the last node of the sorted chain.
RECURSIVE find_tail(_, _)
find_tail(h, sorted) ==
    IF h.next[sorted] # NULL
    THEN IF h.fuel = 0 THEN HANG ELSE find_tail(Tick(h), h.next[sorted])
    ELSE sorted

\* q_sort without its last assignment, head->prev = sorted.
q_sort_noprev(h, l) ==
    IF l = NULL \/ list_empty(h, l) \/ list_is_singular(h, l) THEN h
    ELSE LET h1 == SetNext(h, h.prev[l], NULL)
             S  == mergesort(h1, h1.next[l])
             h2 == SetNext(S.h, l, S.head)
             h3 == SetPrev(h2, S.head, l)
             tl == find_tail(h3, S.head)
         IN  SetNext(h3, tl, l)

q_sort(h, l) ==
    IF l = NULL \/ list_empty(h, l) \/ list_is_singular(h, l) THEN h
    ELSE LET h1 == SetNext(h, h.prev[l], NULL)
             S  == mergesort(h1, h1.next[l])
             h2 == SetNext(S.h, l, S.head)
             h3 == SetPrev(h2, S.head, l)
             tl == find_tail(h3, S.head)
             h4 == SetNext(h3, tl, l)
         IN  IF tl = HANG THEN Hang(h3) ELSE SetPrev(h4, l, tl)

\* q_free: list_for_each_entry_safe releases every element, then the
\* sentinel is freed.
RECURSIVE free_loop(_, _, _, _)
free_loop(h, l, node, safe) ==
    IF node # l
    THEN IF h.fuel = 0 THEN Hang(h)
         ELSE LET h1 == q_release_element(Tick(h), node)
              IN  free_loop(h1, l, safe, h1.next[safe])
    ELSE h

\* q_free that frees the sentinel and leaves the elements.
q_free_sentinel(h, l) ==
    IF l = NULL THEN h
    ELSE free(h, l)

q_free(h, l) ==
    IF l = NULL THEN h
    ELSE free(free_loop(h, l, h.next[l], h.next[h.next[l]]), l)

\* ------------------------------------------------------------ views
\* The elements met by following next from the sentinel, up to the first
\* return to the sentinel (or a null pointer, or MaxElems + 1 steps).
RECURSIVE WalkNext(_, _, _)
WalkNext(h, n, fuel) ==
    IF n = HEAD \/ n = NULL \/ fuel = 0 THEN << >>
    ELSE <<n>> \o WalkNext(h, h.next[n], fuel - 1)

RECURSIVE WalkPrev(_, _, _)
WalkPrev(h, n, fuel) ==
    IF n = HEAD \/ n = NULL \/ fuel = 0 THEN << >>
    ELSE <<n>> \o WalkPrev(h, h.prev[n], fuel - 1)

Chain(h, l)     == IF l = NULL THEN << >> ELSE WalkNext(h, h.next[l], MaxElems + 1)
BackChain(h, l) == IF l = NULL THEN << >> ELSE WalkPrev(h, h.prev[l], MaxElems + 1)

Range(s)   == {s[i] : i \in 1..Len(s)}
Rev(s)     == [i \in 1..Len(s) |-> s[Len(s) + 1 - i]]
ValuesOf(h, s) == [i \in 1..Len(s) |-> h.value[s[i]]]

\* ------------------------------------------------------------ the machine
EmptyHeap ==
    [next  |-> [n \in Nodes |-> NULL],
     prev  |-> [n \in Nodes |-> NULL],
     value |-> [n \in Nodes |-> NullStr],
     alloc |-> [n \in Nodes |-> FALSE],
     fault |-> FALSE,
     log   |-> << >>,
     fuel  |-> Fuel,
     hang  |-> FALSE]

Commit(h) ==
    /\ next'  = h.next
    /\ prev'  = h.prev
    /\ value' = h.value
    /\ alloc' = h.alloc
    /\ fault' = h.fault

\* The record of a call: before and bvals are the queue's elements and
\* their strings when the call was made, balloc the allocated elements,
\* handle the queue handle that was passed, ok the outcomes of the call's
\* allocations (set by the insertions), freed the slots the call passed to
\* free, in order (set by q_free).
Call(op, arg, ret, buf) ==
    [op     |-> op,
     arg    |-> arg,
     ret    |-> ret,
     buf    |-> buf,
     before |-> Chain(Heap, head),
     bvals  |-> ValuesOf(Heap, Chain(Heap, head)),
     balloc |-> {n \in Elems : alloc[n]},
     handle |-> head,
     ok     |-> <<TRUE, TRUE>>,
     freed  |-> << >>]

\* Number of element slots that are allocated in h and free in g.
Freed(h, g) == Cardinality({n \in Elems : h.alloc[n] /\ ~g.alloc[n]})

\* The state after construction: q_new has been called once.
Init ==
    \E ok \in BOOLEAN :
        LET r == q_new(EmptyHeap, ok)
        IN  /\ head  = r.ret
            /\ next  = r.h.next
            /\ prev  = r.h.prev
            /\ value = r.h.value
            /\ alloc = r.h.alloc
            /\ fault = r.h.fault
            /\ held  = {}
            /\ net   = 0
            /\ last  = [op |-> "q_new", arg |-> NullStr, ret |-> r.ret, buf |-> FreshBuf,
                        before |-> << >>, bvals |-> << >>, balloc |-> {},
                        handle |-> NULL, ok |-> <<ok, TRUE>>,
                        freed |-> << >>]

\* The caller creates a queue when it has none.
New ==
    /\ head = NULL
    /\ \E ok \in BOOLEAN :
         LET r == q_new(Heap, ok)
         IN  /\ Commit(r.h)
             /\ head' = r.ret
             /\ net'  = 0
             /\ last' = Call("q_new", NullStr, r.ret, FreshBuf)
    /\ UNCHANGED held

\* The caller destroys its queue (or calls q_free with no queue) and drops
\* the handle.
Free ==
    /\ Commit(q_free(Heap, head))
    /\ head' = NULL
    /\ net'  = 0
    /\ last' = [Call("q_free", NullStr, NULL, FreshBuf)
                   EXCEPT !.freed = q_free(Heap, head).log]
    /\ UNCHANGED held

\* The outcomes of the two allocations of an insertion: both succeed, the
\* element's malloc fails, or the string's strdup fails.
AllocOutcomes == {<<TRUE, TRUE>>, <<FALSE, TRUE>>, <<TRUE, FALSE>>}

InsertHead ==
    \E s \in Texts, ok \in AllocOutcomes :
        LET r == q_insert_head(Heap, head, s, ok[1], ok[2])
        IN  /\ Commit(r.h)
            /\ net'  = IF r.ret THEN net + 1 ELSE net
            /\ last' = [Call("q_insert_head", s, r.ret, FreshBuf) EXCEPT !.ok = ok]
            /\ UNCHANGED <<head, held>>

InsertTail ==
    \E s \in Texts, ok \in AllocOutcomes :
        LET r == q_insert_tail(Heap, head, s, ok[1], ok[2])
        IN  /\ Commit(r.h)
            /\ net'  = IF r.ret THEN net + 1 ELSE net
            /\ last' = [Call("q_insert_tail", s, r.ret, FreshBuf) EXCEPT !.ok = ok]
            /\ UNCHANGED <<head, held>>

\* The buffer arguments of a removal: none, or a buffer with a size.
BufArgs == {[sp |-> FALSE, bufsize |-> 0]} \cup [sp : {TRUE}, bufsize : 0..BufCap]

RemoveHead ==
    \E a \in BufArgs :
        LET r == q_remove_head(Heap, head, a.sp, a.bufsize)
        IN  /\ Commit(r.h)
            /\ held' = IF r.ret = NULL THEN held ELSE held \cup {r.ret}
            /\ net'  = IF r.ret = NULL THEN net ELSE net - 1
            /\ last' = Call("q_remove_head", a, r.ret, r.buf)
            /\ UNCHANGED head

RemoveTail ==
    \E a \in BufArgs :
        LET r == q_remove_tail(Heap, head, a.sp, a.bufsize)
        IN  /\ Commit(r.h)
            /\ held' = IF r.ret = NULL THEN held ELSE held \cup {r.ret}
            /\ net'  = IF r.ret = NULL THEN net ELSE net - 1
            /\ last' = Call("q_remove_tail", a, r.ret, r.buf)
            /\ UNCHANGED head

\* The caller releases an element it holds.
ReleaseElement ==
    \E e \in held :
        /\ Commit(q_release_element(Heap, e))
        /\ held' = held \ {e}
        /\ last' = Call("q_release_element", e, NULL, FreshBuf)
        /\ UNCHANGED <<head, net>>

Size ==
    /\ last' = Call("q_size", NullStr, q_size(Heap, head), FreshBuf)
    /\ UNCHANGED <<head, next, prev, value, alloc, held, fault, net>>

DeleteMid ==
    LET r == q_delete_mid(Heap, head)
    IN  /\ Commit(r.h)
        /\ net'  = net - Freed(Heap, r.h)
        /\ last' = Call("q_delete_mid", NullStr, r.ret, FreshBuf)
        /\ UNCHANGED <<head, held>>

DeleteDup ==
    LET r == q_delete_dup(Heap, head)
    IN  /\ Commit(r.h)
        /\ net'  = net - Freed(Heap, r.h)
        /\ last' = Call("q_delete_dup", NullStr, r.ret, FreshBuf)
        /\ UNCHANGED <<head, held>>

Swap ==
    /\ Commit(q_swap(Heap, head))
    /\ last' = Call("q_swap", NullStr, NULL, FreshBuf)
    /\ UNCHANGED <<head, held, net>>

Reverse ==
    /\ Commit(q_reverse(Heap, head))
    /\ last' = Call("q_reverse", NullStr, NULL, FreshBuf)
    /\ UNCHANGED <<head, held, net>>

Sort ==
    /\ Commit(q_sort(Heap, head))
    /\ last' = Call("q_sort", NullStr, NULL, FreshBuf)
    /\ UNCHANGED <<head, held, net>>

Next ==
    \/ New
    \/ Free
    \/ InsertHead
    \/ InsertTail
    \/ RemoveHead
    \/ RemoveTail
    \/ ReleaseElement
    \/ Size
    \/ DeleteMid
    \/ DeleteDup
    \/ Swap
    \/ Reverse
    \/ Sort

Spec == Init /\ [][Next]_vars

\* The insertions called with s = NULL: new_element does not call strdup, so
\* only the outcome of malloc matters.
InsertHeadNull ==
    \E ok \in BOOLEAN :
        LET r == q_insert_head(Heap, head, NullStr, ok, TRUE)
        IN  /\ Commit(r.h)
            /\ net'  = IF r.ret THEN net + 1 ELSE net
            /\ last' = [Call("q_insert_head", NullStr, r.ret, FreshBuf)
                           EXCEPT !.ok = <<ok, TRUE>>]
            /\ UNCHANGED <<head, held>>

InsertTailNull ==
    \E ok \in BOOLEAN :
        LET r == q_insert_tail(Heap, head, NullStr, ok, TRUE)
        IN  /\ Commit(r.h)
            /\ net'  = IF r.ret THEN net + 1 ELSE net
            /\ last' = [Call("q_insert_tail", NullStr, r.ret, FreshBuf)
                           EXCEPT !.ok = <<ok, TRUE>>]
            /\ UNCHANGED <<head, held>>

\* No linked element has a NULL value.  The functions that pass values to
\* strcmp or strncpy (q_remove_head, q_remove_tail, q_delete_dup, q_sort)
\* dereference a NULL value; such a call has no defined outcome and is not
\* followed.
NoNullPayload ==
    \A n \in Range(Chain(Heap, head)) : value[n] # NullStr

RemoveHeadText == NoNullPayload /\ RemoveHead
RemoveTailText == NoNullPayload /\ RemoveTail
DeleteDupText  == NoNullPayload /\ DeleteDup
SortText       == NoNullPayload /\ Sort

\* The program whose callers may also pass s = NULL to the insertions.
NextNull ==
    \/ InsertHeadNull
    \/ InsertTailNull
    \/ New
    \/ Free
    \/ InsertHead
    \/ InsertTail
    \/ ReleaseElement
    \/ Size
    \/ DeleteMid
    \/ Swap
    \/ Reverse
    \/ RemoveHeadText
    \/ RemoveTailText
    \/ DeleteDupText
    \/ SortText

SpecNull == Init /\ [][NextNull]_vars

\* ------------------------------------------------------------ properties
\* The queue now: its elements in next order, and their strings.
Q == Chain(Heap, head)
V == ValuesOf(Heap, Q)

NoDup(s)  == \A i, j \in 1..Len(s) : s[i] = s[j] => i = j
Pos(s, x) == CHOOSE i \in 1..Len(s) : s[i] = x
\* The string element n had when the last call was made.
BVal(n)   == last.bvals[Pos(last.before, n)]
Sorted(vs) == \A i \in 1..(Len(vs) - 1) : strcmp(vs[i], vs[i + 1]) <= 0

\* The chain around the sentinel of heap h is well formed: next from the
\* sentinel meets each element once and comes back to the sentinel, every
\* node of the chain is the prev of its next and the next of its prev, and
\* the prev walk is the next walk reversed.
WellFormed(h) ==
    LET c == Chain(h, HEAD)
    IN  /\ NoDup(c)
        /\ h.next[HEAD] = (IF c = << >> THEN HEAD ELSE c[1])
        /\ c # << >> => h.next[c[Len(c)]] = HEAD
        /\ \A x \in {HEAD} \cup Range(c) :
              /\ h.next[x] \in Nodes
              /\ h.prev[x] \in Nodes
              /\ h.prev[h.next[x]] = x
              /\ h.next[h.prev[x]] = x
        /\ BackChain(h, HEAD) = Rev(c)

\* C1: while a queue exists, after every public operation the chain is well
\* formed (circular in both directions, next and prev inverse of each
\* other on every node of the chain, sentinel included), and the walk
\* meets exactly the elements that are linked: those allocated and not
\* handed to the caller.
C1_WellFormed ==
    head # NULL =>
        /\ WellFormed(Heap)
        /\ Range(Q) = {n \in Elems : alloc[n]} \ held

\* C1 witness: q_sort has just relinked a queue of two or more elements
\* that was not in order, and a caller-held element exists beside it.
C1_Witness ==
    /\ last.op = "q_sort"
    /\ Len(last.before) >= 2
    /\ ~Sorted(last.bvals)
    /\ held # {}
    /\ WellFormed(Heap)

\* C2: the queue refines a double-ended sequence.  A successful
\* q_insert_head puts a new element holding the given string in front of
\* the former content, a successful q_insert_tail behind it; q_remove_head
\* on a non-empty queue returns the former first element with its string
\* and leaves the rest in order, q_remove_tail the former last element.
C2_Refines ==
    /\ (last.op = "q_insert_head" /\ last.ret = TRUE) =>
          /\ Q # << >>
          /\ Q[1] \notin Range(last.before)
          /\ Q = <<Q[1]>> \o last.before
          /\ V = <<last.arg>> \o last.bvals
    /\ (last.op = "q_insert_tail" /\ last.ret = TRUE) =>
          /\ Q # << >>
          /\ Q[Len(Q)] \notin Range(last.before)
          /\ Q = last.before \o <<Q[Len(Q)]>>
          /\ V = last.bvals \o <<last.arg>>
    /\ (last.op = "q_remove_head" /\ last.before # << >>) =>
          /\ last.ret = last.before[1]
          /\ value[last.ret] = last.bvals[1]
          /\ Q = Tail(last.before)
          /\ V = Tail(last.bvals)
    /\ (last.op = "q_remove_tail" /\ last.before # << >>) =>
          /\ last.ret = last.before[Len(last.before)]
          /\ value[last.ret] = last.bvals[Len(last.bvals)]
          /\ Q = SubSeq(last.before, 1, Len(last.before) - 1)
          /\ V = SubSeq(last.bvals, 1, Len(last.bvals) - 1)

\* C2 witness: q_remove_head has returned the first of three elements that
\* hold different strings at the two ends.
C2_Witness ==
    /\ last.op = "q_remove_head"
    /\ Len(last.before) = 3
    /\ last.bvals[1] # last.bvals[3]
    /\ last.ret = last.before[1]

\* C3: q_size is the number of successful insertions minus the elements
\* taken out by q_remove_head/q_remove_tail and released by q_delete_mid/
\* q_delete_dup (net); it is 0 for an absent or empty queue; q_swap,
\* q_reverse and q_sort leave it as it was.
C3_Size ==
    /\ q_size(Heap, head) = net
    /\ (head = NULL \/ Q = << >>) => q_size(Heap, head) = 0
    /\ last.op \in {"q_swap", "q_reverse", "q_sort"} =>
          q_size(Heap, head) = Len(last.before)

\* C3 witness: q_delete_dup has released two or more elements and left
\* some, so the size is neither 0 nor the number of insertions.
C3_Witness ==
    /\ last.op = "q_delete_dup"
    /\ Len(last.before) >= Len(Q) + 2
    /\ q_size(Heap, head) >= 1

\* C4: q_sort on a queue of two or more elements keeps exactly the same
\* element nodes (none allocated, none released, none lost or repeated),
\* each with its own string, and orders them so that every two
\* consecutive strings compare less than or equal under strcmp.
C4_SortSorts ==
    (last.op = "q_sort" /\ Len(last.before) >= 2) =>
        /\ Len(Q) = Len(last.before)
        /\ Range(Q) = Range(last.before)
        /\ NoDup(Q)
        /\ {n \in Elems : alloc[n]} = last.balloc
        /\ \A n \in Range(Q) : value[n] = BVal(n)
        /\ Sorted(V)

\* C4 witness: q_sort has acted on three or more elements that were not in
\* order.
C4_Witness ==
    /\ last.op = "q_sort"
    /\ Len(last.before) >= 3
    /\ ~Sorted(last.bvals)
    /\ Sorted(V)

\* C5: q_sort is stable: two elements whose strings compare equal keep
\* their relative order.
C5_SortStable ==
    last.op = "q_sort" =>
        \A i, j \in 1..Len(last.before) :
            (i < j /\ strcmp(last.bvals[i], last.bvals[j]) = 0) =>
                Pos(Q, last.before[i]) < Pos(Q, last.before[j])

\* C6: on a queue sorted ascending, q_delete_dup returns true, releases
\* every element whose string occurs two or more times (the first of each
\* run included) and leaves exactly the elements whose string occurred
\* once, in their former order and with their strings.
C6_DeleteDup ==
    (last.op = "q_delete_dup" /\ last.handle # NULL /\ Sorted(last.bvals)) =>
        LET Once(x) == \A y \in Range(last.before) :
                           y # x => strcmp(BVal(x), BVal(y)) # 0
            keep    == SelectSeq(last.before, Once)
        IN  /\ last.ret = TRUE
            /\ Q = keep
            /\ \A x \in Range(keep) : alloc[x] /\ value[x] = BVal(x)
            /\ \A x \in Range(last.before) \ Range(keep) : ~alloc[x]
            /\ {n \in Elems : alloc[n]} = last.balloc \ (Range(last.before) \ Range(keep))

\* C6 witness: q_delete_dup has acted on a sorted queue that had a unique
\* string first and ended in a run of duplicates, and one element is left.
C6_Witness ==
    /\ last.op = "q_delete_dup"
    /\ Len(last.before) >= 3
    /\ Sorted(last.bvals)
    /\ strcmp(last.bvals[1], last.bvals[2]) # 0
    /\ strcmp(last.bvals[Len(last.bvals) - 1], last.bvals[Len(last.bvals)]) = 0
    /\ Q = <<last.before[1]>>
    /\ next[HEAD] = last.before[1]
    /\ prev[HEAD] = last.before[1]

C8_Swap ==
    (last.op = "q_swap" /\ Len(last.before) >= 2) =>
        LET n == Len(last.before)
            swapped(i) == IF i % 2 = 0 THEN last.before[i - 1]
                          ELSE IF i + 1 <= n THEN last.before[i + 1]
                          ELSE last.before[i]
        IN  /\ Q = [i \in 1..n |-> swapped(i)]
            /\ \A x \in Range(Q) : value[x] = BVal(x)
            /\ {x \in Elems : alloc[x]} = last.balloc

\* C8 witness: q_swap has acted on three elements holding two different
\* strings in the first pair.
C8_Witness ==
    /\ last.op = "q_swap"
    /\ Len(last.before) = 3
    /\ last.bvals[1] # last.bvals[2]
    /\ Q = <<last.before[2], last.before[1], last.before[3]>>

\* C9: on a queue of n >= 2 elements e0..e(n-1), q_reverse leaves the same
\* nodes in the order e(n-1)..e0, allocates and releases none, and the
\* sentinel's next is e(n-1) and its prev e0.
C9_Reverse ==
    (last.op = "q_reverse" /\ Len(last.before) >= 2) =>
        /\ Q = Rev(last.before)
        /\ next[HEAD] = last.before[Len(last.before)]
        /\ prev[HEAD] = last.before[1]
        /\ \A x \in Range(Q) : value[x] = BVal(x)
        /\ {x \in Elems : alloc[x]} = last.balloc

\* C9 witness: q_reverse has acted on three elements.
C9_Witness ==
    /\ last.op = "q_reverse"
    /\ Len(last.before) = 3
    /\ Q[1] = last.before[3]
    /\ Q[3] = last.before[1]

\* C10: ownership is a partition.  Every element slot is in exactly one of
\* three states: linked (met by the next walk from the sentinel), held by
\* the caller, or released (not allocated); linked and held elements are
\* allocated; no slot was freed while not allocated; and a q_remove_head
\* or q_remove_tail that returns an element has moved it from linked to
\* held with its string, not released it.
C10_Ownership ==
    /\ \A n \in Elems :
          /\ ~(n \in Range(Q) /\ n \in held)
          /\ alloc[n] <=> (n \in Range(Q) \/ n \in held)
    /\ ~fault
    /\ (last.op \in {"q_remove_head", "q_remove_tail"} /\ last.ret # NULL) =>
          /\ last.ret \in Range(last.before)
          /\ last.ret \in held
          /\ last.ret \notin Range(Q)
          /\ alloc[last.ret]
          /\ value[last.ret] = BVal(last.ret)

\* C10 witness: the caller has released one of two elements it held, while
\* another element is still linked.
C10_Witness ==
    /\ last.op = "q_release_element"
    /\ ~alloc[last.arg]
    /\ held # {}
    /\ Q # << >>

Min(a, b) == IF a <= b THEN a ELSE b

\* C11: when q_remove_head or q_remove_tail returns an element and a buffer
\* was passed, then for every bufsize (0 included) the buffer holds the
\* first min(strlen, bufsize - 1) bytes of the element's string followed by
\* a terminator, and no byte at or beyond index bufsize (nor outside the
\* buffer) has been written.
C11_BufferCopy ==
    (last.op \in {"q_remove_head", "q_remove_tail"} /\ last.ret # NULL /\ last.arg.sp) =>
        LET s  == value[last.ret]
            bs == last.arg.bufsize
            k  == Min(strlen(s), bs - 1)
        IN  /\ ~last.buf.oob
            /\ \A i \in 0..(BufCap - 1) : i >= bs => last.buf.mem[i] = Junk
            /\ \A i \in 0..(k - 1) : last.buf.mem[i] = s[i + 1]
            /\ k >= 0 => last.buf.mem[k] = 0

\* C12: q_insert_head and q_insert_tail fail cleanly.  When the handle is
\* absent, or the element's malloc fails (by its outcome or because no slot
\* is left), or the string's strdup fails, the call returns false, the
\* queue's elements and strings are what they were, and the allocated
\* slots are those allocated before the call (the element allocated before
\* a failing strdup has been freed, once).
C12_InsertFails ==
    (/\ last.op \in {"q_insert_head", "q_insert_tail"}
     /\ \/ last.handle = NULL
        \/ ~last.ok[1]
        \/ ~last.ok[2]
        \/ last.balloc = Elems) =>
        /\ last.ret = FALSE
        /\ Q = last.before
        /\ V = last.bvals
        /\ {n \in Elems : alloc[n]} = last.balloc
        /\ ~fault

\* C12 witness: strdup has failed in a q_insert_tail on a queue of one or
\* more elements while a slot was free for the element.
C12_Witness ==
    /\ last.op = "q_insert_tail"
    /\ last.handle # NULL
    /\ last.ok = <<TRUE, FALSE>>
    /\ last.balloc # Elems
    /\ last.before # << >>
    /\ last.ret = FALSE

\* C13 as stated: q_delete_dup called with an absent handle returns true.
C13_Orig ==
    (last.op = "q_delete_dup" /\ last.handle = NULL) => last.ret = TRUE

\* C13: q_delete_dup called with an absent handle returns false and is a
\* no-op: the handle stays absent, the allocated slots are those allocated
\* before the call and nothing has been freed that was not allocated.
C13_NullHandle ==
    (last.op = "q_delete_dup" /\ last.handle = NULL) =>
        /\ last.ret = FALSE
        /\ head = NULL
        /\ {n \in Elems : alloc[n]} = last.balloc
        /\ ~fault

\* C13 witness: q_delete_dup has been called with an absent handle while
\* the caller still holds a removed element.
C13_Witness ==
    /\ last.op = "q_delete_dup"
    /\ last.handle = NULL
    /\ last.ret = FALSE
    /\ held # {}

\* C14: a call of q_remove_head, q_remove_tail, q_delete_mid or q_size on
\* an absent or empty queue returns NULL, NULL, false and 0 respectively;
\* no link, string or allocation changes, no element passes to the caller,
\* and the sentinel of an empty queue still points at itself both ways.
C14_EmptyNoop ==
    [][(/\ last'.op \in {"q_remove_head", "q_remove_tail", "q_delete_mid", "q_size"}
        /\ (head = NULL \/ Q = << >>)) =>
           /\ last'.op \in {"q_remove_head", "q_remove_tail"} => last'.ret = NULL
           /\ last'.op = "q_delete_mid" => last'.ret = FALSE
           /\ last'.op = "q_size" => last'.ret = 0
           /\ UNCHANGED <<head, next, prev, value, alloc, held, fault, net>>
           /\ head # NULL => (next'[HEAD] = HEAD /\ prev'[HEAD] = HEAD)]_vars

\* C14 witness: q_delete_mid has returned false on a present, empty queue
\* while the caller holds a removed element.
C14_Witness ==
    /\ last.op = "q_delete_mid"
    /\ last.handle # NULL
    /\ last.before = << >>
    /\ last.ret = FALSE
    /\ held # {}

\* C15: a call of q_free on a present queue frees every element linked in
\* it, in list order and once each, and then the sentinel, each of them
\* allocated until then,
\* and leaves every other slot, the elements handed to the caller by
\* q_remove_head and q_remove_tail among them, allocated or not as it was
\* and with its string; on a present empty queue exactly the sentinel is
\* freed; on an absent handle nothing changes.
C15_Free ==
    [][last'.op = "q_free" =>
          IF head # NULL
          THEN /\ last'.freed = Q \o <<HEAD>>
               /\ \A n \in Range(Q) : alloc[n] /\ ~alloc'[n]
               /\ alloc[HEAD] /\ ~alloc'[HEAD]
               /\ \A n \in Elems \ Range(Q) :
                      alloc'[n] = alloc[n] /\ value'[n] = value[n]
               /\ \A n \in held : alloc'[n]
               /\ held' = held
               /\ fault' = fault
          ELSE /\ last'.freed = << >>
               /\ UNCHANGED <<next, prev, value, alloc, held, fault>>]_vars

\* C15 witness: q_free has been called on a queue of two or more elements
\* while the caller held a removed element, which is still allocated.
C15_Witness ==
    /\ last.op = "q_free"
    /\ last.handle # NULL
    /\ Len(last.before) >= 2
    /\ held # {}
    /\ \A n \in held : alloc[n]
    /\ \A n \in Range(last.before) : ~alloc[n]

\* C16: a call of q_swap, q_reverse or q_sort on an absent handle, on an
\* empty queue or on a queue of one element changes no next or prev pointer
\* (of the sentinel, of the element, or of any other node), no string and
\* no allocation.
C16_SmallNoop ==
    [][(last'.op \in {"q_swap", "q_reverse", "q_sort"} /\ Len(Q) <= 1) =>
           UNCHANGED <<head, next, prev, value, alloc, held, fault, net>>]_vars

\* C16 witness: q_swap has been called on a present queue of exactly one
\* element, which is still the queue's only element.
C16_Witness ==
    /\ last.op = "q_swap"
    /\ last.handle # NULL
    /\ Len(last.before) = 1
    /\ Q = last.before
    /\ next[HEAD] = Q[1] /\ next[Q[1]] = HEAD
    /\ prev[HEAD] = Q[1] /\ prev[Q[1]] = HEAD

\* C17: every public operation started on the queue as it is now reaches
\* its exit: the loops of q_size, q_delete_mid, q_delete_dup, q_swap,
\* q_reverse and q_free, the recursion of mergesort with its loops and the
\* tail-finding loop of q_sort make no more than Fuel iterations and calls
\* between them (the insertions and removals have no loop over the list).
C17_Terminates ==
    /\ q_size(Heap, head) # HANG
    /\ ~q_delete_mid(Heap, head).h.hang
    /\ ~q_delete_dup(Heap, head).h.hang
    /\ ~q_swap(Heap, head).hang
    /\ ~q_reverse(Heap, head).hang
    /\ ~q_sort(Heap, head).hang
    /\ ~q_free(Heap, head).hang

\* C17 witness: q_sort has run on a queue of MaxElems elements, which it
\* left in another order, and can run again to its exit.
C17_Witness ==
    /\ last.op = "q_sort"
    /\ Len(last.before) = MaxElems
    /\ Q # last.before
    /\ ~q_sort(Heap, head).hang
    /\ q_sort(Heap, head).fuel < Fuel

\* C18: every element linked in the queue has a non-null string, whatever
\* text arguments (NULL included) the insertions were called with.
C18_NonNull ==
    \A n \in Range(Q) : value[n] # NullStr

\* The chain q_sort hands to mergesort: the last node's next is NULL.
Detached == SetNext(Heap, prev[HEAD], NULL)

\* C19 as stated: for a queue of two or more elements, the node at which
\* mergesort divides the detached chain is the node q_delete_mid picks, the
\* element at 0-based index floor(n/2).
C19_Orig ==
    (head # NULL /\ Len(Q) >= 2) =>
        /\ split_mid(Detached, next[HEAD]) = mid_loop(Heap, head, next[HEAD], next[HEAD])
        /\ split_mid(Detached, next[HEAD]) = Q[(Len(Q) \div 2) + 1]

\* C19: for a queue of n >= 2 elements, mergesort cuts the detached chain
\* after the element at 0-based index floor((n - 1) / 2), so the right part
\* begins at index ceil(n / 2), while q_delete_mid picks the element at
\* index floor(n / 2); the two nodes are the same exactly when n is odd.
C19_Split ==
    (head # NULL /\ Len(Q) >= 2) =>
        LET n   == Len(Q)
            mid == split_mid(Detached, next[HEAD])
            del == mid_loop(Heap, head, next[HEAD], next[HEAD])
        IN  /\ mid = Q[((n - 1) \div 2) + 1]
            /\ Detached.next[mid] = Q[((n + 1) \div 2) + 1]
            /\ del = Q[(n \div 2) + 1]
            /\ (mid = del) <=> (n % 2 = 1)

\* C19 witness: q_sort has run on a queue of two elements, whose chain
\* mergesort cuts after the first element while q_delete_mid picks the
\* second.
C19_Witness ==
    /\ last.op = "q_sort"
    /\ head # NULL
    /\ Len(last.before) = 2
    /\ Len(Q) = 2
    /\ split_mid(Detached, next[HEAD]) = Q[1]
    /\ mid_loop(Heap, head, next[HEAD], next[HEAD]) = Q[2]

====
